---- MODULE Spec2Model ----
(***************************************************************************)
(* Model of the Telegram stock-digest worker (src/src/index.js): the       *)
(* TTL cache in front of the Yahoo Finance fetches (getPrice, getRSI),     *)
(* the RSI calculator, the message formatting and the two entry points     *)
(* (fetch webhook, scheduled digest), run as overlapping invocations over  *)
(* one shared key-value store and one clock.                               *)
(***************************************************************************)
EXTENDS Integers, Sequences, FiniteSets, TLC

(* ------------------------------ bounds -------------------------------- *)

\* how many entries of assetLabels the model keeps (the file lists 8)
NumAssets == 2
\* Date.now() at the start of the run (positive)
StartTime == 1
\* the longest close array handed to a direct call
MaxLen == 17
\* the first close of such an array
Base == 50
\* its closes move by a repeating pattern of PatLen steps of -MaxStep..MaxStep
PatLen == 3
MaxStep == 2

(* --------------------------- program constants ------------------------ *)

\* Time is counted in units of 100 ms, which divides every duration of the
\* program (the TTLs in milliseconds do not fit the checker's integers).
TTL_PRICE == 24 * 60 * 60 * 10
TTL_RSI_WEEKLY == 7 * 24 * 60 * 60 * 10
TTL_RSI_MONTHLY == 30 * 24 * 60 * 60 * 10

\* sleep(1500) in front of every Yahoo request
YahooDelay == 15
\* calculateRSI's default period
Period == 14
\* closes.length < 15, slice(-15), slice(-16, -1)
MinCloses == 15

AllSymbols == <<"WPEA.PA", "ESE.PA", "VERX.AS", "PAASI.PA",
                "DBXJ.DE", "4BRZ.DE", "PPFB.DE", "BTC-USD">>
AllNames == <<"ETF Monde (WPEA)", "ETF S&P500 (ESE)", "ETF Europe (VERX)",
              "ETF Asie (PAASI)", "ETF Japon (PTPXE)", "ETF Bresil (4BRZ)",
              "ETF Gold (PPFB)", "Bitcoin">>

\* Object.keys(assetLabels), in insertion order, cut to NumAssets entries
assetLabels == [i \in 1..NumAssets |-> [symbol |-> AllSymbols[i], name |-> AllNames[i]]]

(* ------------------------- JavaScript values -------------------------- *)

Null == [t |-> "null"]
Undefined == [t |-> "undefined"]
NaN == [t |-> "NaN"]

RECURSIVE GCD(_, _)
GCD(a, b) == IF b = 0 THEN a ELSE GCD(b, a % b)

\* the number n/d (d > 0, n >= 0), in lowest terms
Num(n, d) == LET g == GCD(n, d) IN [t |-> "num", n |-> n \div g, d |-> d \div g]
Whole(n) == [t |-> "num", n |-> n, d |-> 1]

\* typeof v === 'number' (true of NaN as well)
IsNumber(v) == v.t \in {"num", "NaN"}

\* ToNumber of one element of a parsed close array: null counts as 0
ToNumber(v) == IF v.t = "num" THEN v.n ELSE 0

\* o?.f
Field(o, f) == IF o.t \in {"null", "undefined"} THEN Undefined ELSE o[f]

Max(a, b) == IF a >= b THEN a ELSE b

(* ------------------- JSON.stringify / JSON parse ---------------------- *)

\* JSON has no NaN: JSON.stringify writes a NaN number as null
JSONNumber(v) == IF v.t = "NaN" THEN Null ELSE v

JSONstringify(o) ==
    IF o.t = "rsi"
    THEN [json |-> [t |-> "rsi", current |-> JSONNumber(o.current),
                    previous |-> JSONNumber(o.previous), ts |-> o.ts]]
    ELSE [json |-> [t |-> "price", value |-> JSONNumber(o.value), ts |-> o.ts]]

JSONparse(s) == s.json

(* ------------------------------ cache --------------------------------- *)

Metrics == <<"weekly", "monthly", "price">>

\* `PRICE_${symbol}` and `RSI_${interval}_${symbol}`
cacheKey(metric, symbol) ==
    IF metric = "price" THEN <<"PRICE", symbol>>
    ELSE IF metric = "weekly" THEN <<"RSI_weekly", symbol>>
    ELSE <<"RSI_monthly", symbol>>

TTL(metric) ==
    IF metric = "price" THEN TTL_PRICE
    ELSE IF metric = "weekly" THEN TTL_RSI_WEEKLY
    ELSE TTL_RSI_MONTHLY

\* a freshness test that ends the entry's life one instant early
isExpiredAtTTL(ts, ttl, t) == ts = 0 \/ t - ts >= ttl

\* isExpired(ts, ttl) evaluated when Date.now() = t
isExpired(ts, ttl, t) == ts = 0 \/ t - ts > ttl

\* a sleep that resolves at once
sleepNoWait(t, ms) == t

\* sleep(ms) called when Date.now() = t: the earliest instant it resolves
sleep(t, ms) == t + ms

(* --------------------------- RSI calculator --------------------------- *)

\* closes[i] of a JavaScript array (0-based), as the subtraction sees it
At(closes, i) == ToNumber(closes[i + 1])

\* the seeding loop, i = from..period: <<gains, losses>>
RECURSIVE SeedLoop(_, _, _, _, _)
SeedLoop(closes, i, period, gains, losses) ==
    IF i > period THEN <<gains, losses>>
    ELSE LET diff == At(closes, i) - At(closes, i - 1) IN
         IF diff > 0 THEN SeedLoop(closes, i + 1, period, gains + diff, losses)
         ELSE SeedLoop(closes, i + 1, period, gains, losses - diff)

\* the smoothing loop, i = from..length-1, on avgGain = g/den, avgLoss = l/den
RECURSIVE SmoothLoop(_, _, _, _, _, _)
SmoothLoop(closes, i, period, g, l, den) ==
    IF i >= Len(closes) THEN <<g, l, den>>
    ELSE LET diff == At(closes, i) - At(closes, i - 1) IN
         SmoothLoop(closes, i + 1, period,
                    g * (period - 1) + Max(diff, 0) * den,
                    l * (period - 1) + Max(0 - diff, 0) * den,
                    den * period)

\* the ratio taken the wrong way round: rs = avgLoss / avgGain
RSIFromAveragesInverted(g, l) ==
    IF g = 0 THEN (IF l = 0 THEN NaN ELSE Whole(100))
    ELSE Num(100 * l, g + l)

\* rs = avgGain / avgLoss; 100 - 100 / (1 + rs), in IEEE arithmetic:
\* 0/0 is NaN and stays NaN, x/0 is Infinity and 100/Infinity is 0
RSIFromAverages(g, l) ==
    IF l = 0 THEN (IF g = 0 THEN NaN ELSE Whole(100))
    ELSE Num(100 * g, g + l)

\* a guard that asks for period closes only: closes[period] is then
\* undefined and every sum it enters is NaN
calculateRSINeedsPeriod(closes, period) ==
    IF Len(closes) < period THEN Null
    ELSE IF Len(closes) = period THEN NaN
    ELSE LET seed == SeedLoop(closes, 1, period, 0, 0)
             avg == SmoothLoop(closes, period + 1, period, seed[1], seed[2], period)
         IN RSIFromAverages(avg[1], avg[2])

calculateRSI(closes, period) ==
    IF Len(closes) < period + 1 THEN Null
    ELSE LET seed == SeedLoop(closes, 1, period, 0, 0)
             avg == SmoothLoop(closes, period + 1, period, seed[1], seed[2], period)
         IN RSIFromAverages(avg[1], avg[2])

\* calculateRSI called with any value: !closes holds of null and undefined,
\* an array is [t |-> "array", items |-> its elements]
calculateRSICall(closes, period) ==
    IF closes.t \in {"null", "undefined"} THEN Null
    ELSE calculateRSI(closes.items, period)

\* closes.slice(-n)
SliceLast(closes, n) ==
    SubSeq(closes, Max(Len(closes) - n, 0) + 1, Len(closes))

\* closes.slice(-n, -1)
SliceLastButOne(closes, n) ==
    SubSeq(closes, Max(Len(closes) - n, 0) + 1, Len(closes) - 1)

(* ------------------------ provider responses -------------------------- *)

\* a close array as Yahoo delivers it: numbers, with null for a missing bar
Series(shape, n) ==
    [i \in 1..n |->
        IF shape = "flat" THEN Whole(44)
        ELSE IF shape = "up" THEN Whole(30 + i)
        ELSE IF shape = "down" THEN Whole(60 - i)
        ELSE IF shape = "zig" THEN Whole(28 + 2 * (i \div 2) + 3 * (i % 2))
        ELSE IF shape = "tailnull" THEN (IF i = n THEN Null ELSE Whole(31 + i))
        ELSE Null]

\* what one Yahoo request can come back with:
\*   reject   - fetch() rejects (network error)
\*   badjson  - res.json() rejects (the body is not JSON)
\*   nocloses - JSON without chart.result[0].indicators.quote[0].close
\*              (Yahoo's error body, a quota notice)
\*   closes   - JSON carrying a close array
Failure(kind) == [kind |-> kind, closes |-> <<>>]
Closes(shape, n) == [kind |-> "closes", closes |-> Series(shape, n)]

Responses ==
    {Failure("reject"), Failure("badjson"), Failure("nocloses"),
     Closes("up", MinCloses - 1), Closes("tailnull", MinCloses - 1),
     Closes("flat", MinCloses), Closes("nulls", MinCloses),
     Closes("zig", MinCloses + 1)}

\* [...closes].reverse().find(v => typeof v === 'number'), Undefined if none
RECURSIVE FindLastNumber(_, _)
FindLastNumber(closes, i) ==
    IF i = 0 THEN Undefined
    ELSE IF IsNumber(closes[i]) THEN closes[i]
    ELSE FindLastNumber(closes, i - 1)

(* ----------------- getPrice / getRSI after the response --------------- *)

\* what the rest of a lookup does once the response is in:
\*   put   - start ASSET_CACHE.put(cacheKey, JSON.stringify(entry)), then
\*           return value
\*   ret   - return value without touching the cache
\*   throw - the exception leaves the function
Put(entry, value) == [do |-> "put", entry |-> entry, value |-> value]
Ret(value) == [do |-> "ret", entry |-> Null, value |-> value]
Throw == [do |-> "throw", entry |-> Null, value |-> Null]

\* a catch block that passes the exception on
PriceFallbackRethrow(cached) == Throw

\* catch (e) { return cached?.value ?? null } of getPrice
PriceFallback(cached) ==
    Ret(IF cached = Null THEN Null ELSE cached.value)

\* lines 32-55 of getPrice for one response, at Date.now() = t
getPriceTail(resp, cached, t) ==
    IF resp.kind # "closes" THEN PriceFallback(cached)
    ELSE LET lastClose == FindLastNumber(resp.closes, Len(resp.closes)) IN
         IF ~IsNumber(lastClose) THEN PriceFallback(cached)
         ELSE Put([t |-> "price", value |-> lastClose, ts |-> t], lastClose)

\* a fallback that forgets the stale entry
RSIFallbackDropsStale(cached) == Ret(Null)

\* return cached ?? null of getRSI (the guard at 113-116 and the catch)
RSIFallback(cached) == Ret(cached)

\* lines 118-131 of getRSI: the two readings, stored and returned
RSIResult(closes, t) ==
    LET currentRSI == calculateRSI(SliceLast(closes, MinCloses), Period)
        previousRSI == calculateRSI(SliceLastButOne(closes, MinCloses + 1), Period)
        result == [t |-> "rsi", current |-> currentRSI,
                   previous |-> previousRSI, ts |-> t]
    IN Put(result, result)

\* a getRSI that remembers a failed fetch: it stores an empty reading
getRSITailStoresFailure(resp, cached, t) ==
    IF resp.kind # "closes" \/ Len(resp.closes) < MinCloses
    THEN Put([t |-> "rsi", current |-> Null, previous |-> Null, ts |-> t], cached)
    ELSE RSIResult(resp.closes, t)

\* lines 101-136 of getRSI for one response, at Date.now() = t
getRSITail(resp, cached, t) ==
    IF resp.kind # "closes" THEN RSIFallback(cached)
    ELSE IF Len(resp.closes) < MinCloses THEN RSIFallback(cached)
    ELSE RSIResult(resp.closes, t)

(* ---------------------------- formatting ------------------------------ *)

\* c > p * 1.01 and c < p * 0.99 on numbers (false when either is NaN)
Above(c, p) == c.t = "num" /\ p.t = "num" /\ c.n * p.d * 100 > p.n * 101 * c.d
Below(c, p) == c.t = "num" /\ p.t = "num" /\ c.n * p.d * 100 < p.n * 99 * c.d

arrow(c, p) ==
    IF IsNumber(c) /\ IsNumber(p)
    THEN (IF Above(c, p) THEN "up" ELSE IF Below(c, p) THEN "down" ELSE "flat")
    ELSE "flat"

\* v.toFixed(1): the text of v rounded to tenths; NaN.toFixed(1) is "NaN"
toFixed1(v) ==
    IF v.t = "NaN" THEN [text |-> "NaN", tenths |-> 0]
    ELSE [text |-> "digits", tenths |-> (20 * v.n + v.d) \div (2 * v.d)]

safe(v) == IF IsNumber(v) THEN toFixed1(v) ELSE [text |-> "N/A", tenths |-> 0]

\* one section of the digest
assetMessage(asset, w, m, price) ==
    [name |-> asset.name,
     price |-> safe(price),
     weekly |-> safe(Field(w, "current")),
     weeklyArrow |-> arrow(Field(w, "current"), Field(w, "previous")),
     monthly |-> safe(Field(m, "current")),
     monthlyArrow |-> arrow(Field(m, "current"), Field(m, "previous"))]

(* ------------------------------ requests ------------------------------ *)

\* env.ALLOWED_CHAT_IDS, parsed
AllowedChatIds == {111}

\* no event arrives for this invocation
NoEvent == [kind |-> "none", method |-> "", path |-> "", chatId |-> 0, text |-> ""]
Scheduled == [kind |-> "scheduled", method |-> "", path |-> "", chatId |-> 0, text |-> ""]
Webhook(method, path, chatId, text) ==
    [kind |-> "fetch", method |-> method, path |-> path, chatId |-> chatId, text |-> text]

\* the inbound events the model delivers; chatId 0 and text "" stand for a
\* body without message.chat.id / message.text
OtherEvents ==
    {Webhook("GET", "/favicon.ico", 0, ""),
     Webhook("GET", "/", 0, ""),
     Webhook("POST", "/", 0, ""),
     Webhook("POST", "/", 999, "Tous les actifs"),
     Webhook("POST", "/", 999, ""),
     Webhook("POST", "/favicon.ico", 999, "Tous les actifs"),
     Webhook("POST", "/", 111, "/start"),
     Webhook("POST", "/", 111, "hello")}
DigestEvents == {Scheduled, Webhook("POST", "/", 111, "Tous les actifs")}
AssetEvents == {Webhook("POST", "/", 111, assetLabels[k].name) : k \in 1..NumAssets}
Events == OtherEvents \cup DigestEvents \cup AssetEvents

\* Object.keys(assetLabels).find(k => assetLabels[k].name === text), 0 if none
FindSymbol(text) ==
    IF \E k \in 1..NumAssets : assetLabels[k].name = text
    THEN CHOOSE k \in 1..NumAssets : assetLabels[k].name = text
    ELSE 0

Respond200 == [pc |-> "done", status |-> 200, mode |-> "none", idx |-> 0]

\* a handler without the allow-list test
RouteAnyChat(r) ==
    IF r.kind = "scheduled" THEN [pc |-> "get", status |-> 0, mode |-> "all", idx |-> 1]
    ELSE IF r.path = "/favicon.ico" \/ r.path = "/robots.txt"
         THEN [pc |-> "done", status |-> 404, mode |-> "none", idx |-> 0]
    ELSE IF r.method # "POST" THEN Respond200
    ELSE IF r.chatId = 0 \/ r.text = "" THEN Respond200
    ELSE IF r.text = "/start" THEN [pc |-> "menu", status |-> 0, mode |-> "none", idx |-> 0]
    ELSE IF r.text = "Tous les actifs"
         THEN [pc |-> "get", status |-> 0, mode |-> "all", idx |-> 1]
    ELSE IF FindSymbol(r.text) = 0 THEN Respond200
    ELSE [pc |-> "get", status |-> 0, mode |-> "single", idx |-> FindSymbol(r.text)]

\* the synchronous head of fetch(req, env) (195-246) and of scheduled (252-253):
\* where the invocation goes first
Route(r) ==
    IF r.kind = "scheduled" THEN [pc |-> "get", status |-> 0, mode |-> "all", idx |-> 1]
    ELSE IF r.path = "/favicon.ico" \/ r.path = "/robots.txt"
         THEN [pc |-> "done", status |-> 404, mode |-> "none", idx |-> 0]
    ELSE IF r.method # "POST" THEN Respond200
    ELSE IF r.chatId = 0 \/ r.text = "" THEN Respond200
    ELSE IF r.chatId \notin AllowedChatIds
         THEN [pc |-> "done", status |-> 403, mode |-> "none", idx |-> 0]
    ELSE IF r.text = "/start" THEN [pc |-> "menu", status |-> 0, mode |-> "none", idx |-> 0]
    ELSE IF r.text = "Tous les actifs"
         THEN [pc |-> "get", status |-> 0, mode |-> "all", idx |-> 1]
    ELSE IF FindSymbol(r.text) = 0 THEN Respond200
    ELSE [pc |-> "get", status |-> 0, mode |-> "single", idx |-> FindSymbol(r.text)]

(* ------------------------------- state -------------------------------- *)

\* two invocations of the worker (webhook or cron): the least that can follow
\* one another or overlap
Inv == {1, 2}
Keys == {cacheKey(Metrics[j], assetLabels[k].symbol) : j \in 1..3, k \in 1..NumAssets}

\* ASSET_CACHE.get of a key never written
Missing == [missing |-> TRUE]

VARIABLES
    now,         \* Date.now()
    cache,       \* ASSET_CACHE: key -> stored JSON text, or Missing
    proc,        \* per invocation: position and locals
    inflight,    \* the Yahoo requests sent and not yet answered: <<invocation, key>>
    lastFetched, \* per key: the value returned by the call whose put landed last
    requests,    \* how many Yahoo requests have been sent
    lastReqAt,   \* Date.now() when the last Yahoo request was sent, 0 before the first
    input,       \* the argument of a direct call of calculateRSI or of getRSI's tail
    output       \* what that call returned, NotCalled before it

vars == <<now, cache, proc, inflight, lastFetched, requests, lastReqAt, input, output>>

\* no direct call is made
NotCalled == [of |-> "none", value |-> Null]

Idle(r) ==
    [pc |-> "idle", req |-> r, status |-> 0, mode |-> "none", idx |-> 0,
     metric |-> "weekly", cached |-> Null, wakeAt |-> 0, pending |-> Ret(Null),
     sentAt |-> 0, w |-> Null, m |-> Null, ret |-> Null, how |-> "none",
     msg |-> <<>>, sends |-> 0, order |-> <<>>, err |-> "none"]

Start(evs) ==
    /\ now = StartTime
    /\ cache = [k \in Keys |-> Missing]
    /\ proc \in [Inv -> {Idle(r) : r \in evs}]
    /\ inflight = {}
    /\ lastFetched = [k \in Keys |-> Null]
    /\ requests = 0
    /\ lastReqAt = 0
    /\ input = Null
    /\ output = NotCalled

\* an empty store and any events
Init == Start(Events)

\* the handler has returned or thrown: its locals are gone
Ended(p, pc, status, sends, err) ==
    [Idle(p.req) EXCEPT !.pc = pc, !.status = status, !.sends = sends, !.err = err]

KeyOf(p) == cacheKey(p.metric, assetLabels[p.idx].symbol)

\* a loop body that asks for the price before the monthly RSI
NextLookupPriceFirst(metric) == IF metric = "weekly" THEN "price" ELSE "monthly"

\* the lookup that follows a lookup of the same asset (181-183, 242-244)
NextLookup(metric) == IF metric = "weekly" THEN "monthly" ELSE "price"

\* the value a lookup returned goes to w, m or p; after the price lookup the
\* section is appended and the loop of buildAllAssetsMessage moves on (180-186),
\* or the single-asset branch goes on to send (242-247)
Return(p, v, how) ==
    IF p.metric = "weekly"
    THEN [p EXCEPT !.pc = "get", !.metric = NextLookup(p.metric),
                   !.w = v, !.ret = v, !.how = how]
    ELSE IF p.metric = "monthly"
    THEN [p EXCEPT !.pc = "get", !.metric = NextLookup(p.metric),
                   !.m = v, !.ret = v, !.how = how]
    ELSE LET section == assetMessage(assetLabels[p.idx], p.w, p.m, v)
             more == p.mode = "all" /\ p.idx < NumAssets
         IN [p EXCEPT !.pc = IF more THEN "get" ELSE "send",
                      !.idx = IF more THEN p.idx + 1 ELSE p.idx,
                      !.metric = "weekly", !.w = Null, !.m = Null,
                      !.ret = v, !.how = how,
                      !.msg = Append(p.msg, section)]

(* ------------------------------ actions ------------------------------- *)

\* the runtime starts handling an event: fetch(req, env) or scheduled(_, env)
Receive(i) ==
    /\ proc[i].pc = "idle"
    /\ proc[i].req.kind # "none"
    /\ LET route == Route(proc[i].req) IN
       proc' = [proc EXCEPT ![i] = [@ EXCEPT !.pc = route.pc, !.status = route.status,
                                             !.mode = route.mode, !.idx = route.idx]]
    /\ UNCHANGED <<now, cache, inflight, lastFetched, requests, lastReqAt, input, output>>

\* ASSET_CACHE.get(cacheKey, 'json') resolves and the freshness test runs
\* (getPrice 24-28, getRSI 90-97): a fresh entry is returned, otherwise the
\* lookup starts its sleep(1500)
CacheGet(i) ==
    /\ proc[i].pc = "get"
    /\ LET p == proc[i]
           stored == cache[KeyOf(p)]
           cached == IF stored = Missing THEN Null ELSE JSONparse(stored)
           q == [p EXCEPT !.order = Append(p.order, <<p.idx, p.metric>>),
                          !.cached = cached]
       IN IF cached # Null /\ ~isExpired(cached.ts, TTL(p.metric), now)
          THEN proc' = [proc EXCEPT ![i] =
                   Return(q, IF p.metric = "price" THEN cached.value ELSE cached, "hit")]
          ELSE proc' = [proc EXCEPT ![i] =
                   [q EXCEPT !.pc = "sleep", !.wakeAt = sleep(now, YahooDelay)]]
    /\ UNCHANGED <<now, cache, inflight, lastFetched, requests, lastReqAt, input, output>>

\* the sleep is over (not before wakeAt) and the request goes out to Yahoo
Wake(i) ==
    /\ proc[i].pc = "sleep"
    /\ now' = Max(now, proc[i].wakeAt)
    /\ proc' = [proc EXCEPT ![i] = [@ EXCEPT !.pc = "request", !.sentAt = now']]
    /\ inflight' = inflight \cup {<<i, KeyOf(proc[i])>>}
    /\ requests' = requests + 1
    /\ lastReqAt' = now'
    /\ UNCHANGED <<cache, lastFetched, input, output>>

\* Yahoo's answer arrives and the rest of the try block runs up to its next
\* await: the put, or a return through the guard or the catch
Respond(i, resp) ==
    /\ proc[i].pc = "request"
    /\ LET p == proc[i]
           tail == IF p.metric = "price" THEN getPriceTail(resp, p.cached, now)
                   ELSE getRSITail(resp, p.cached, now)
       IN proc' = [proc EXCEPT ![i] =
              IF tail.do = "put" THEN [p EXCEPT !.pc = "put", !.pending = tail]
              ELSE IF tail.do = "ret" THEN Return(p, tail.value, "fallback")
              ELSE Ended(p, "failed", 0, p.sends, "lookup")]
    /\ inflight' = inflight \ {<<i, KeyOf(proc[i])>>}
    /\ UNCHANGED <<now, cache, lastFetched, requests, lastReqAt, input, output>>

\* a put that gives way to an entry written since the lookup read the key
CachePutUnlessChanged(i) ==
    /\ proc[i].pc = "put"
    /\ LET p == proc[i]
           stored == cache[KeyOf(p)]
           seen == IF stored = Missing THEN Null ELSE JSONparse(stored)
       IN
       /\ cache' = IF seen = p.cached
                   THEN [cache EXCEPT ![KeyOf(p)] = JSONstringify(p.pending.entry)]
                   ELSE cache
       /\ lastFetched' = [lastFetched EXCEPT ![KeyOf(p)] = p.pending.value]
       /\ proc' = [proc EXCEPT ![i] =
              Return([p EXCEPT !.pending = Ret(Null)], p.pending.value, "fetched")]
    /\ UNCHANGED <<now, inflight, requests, lastReqAt, input, output>>

\* ASSET_CACHE.put lands: the whole entry replaces what the key held
CachePut(i) ==
    /\ proc[i].pc = "put"
    /\ LET p == proc[i] IN
       /\ cache' = [cache EXCEPT ![KeyOf(p)] = JSONstringify(p.pending.entry)]
       /\ lastFetched' = [lastFetched EXCEPT ![KeyOf(p)] = p.pending.value]
       /\ proc' = [proc EXCEPT ![i] =
              Return([p EXCEPT !.pending = Ret(Null)], p.pending.value, "fetched")]
    /\ UNCHANGED <<now, inflight, requests, lastReqAt, input, output>>

\* one POST to api.telegram.org: the two of /start (221-226), or the digest
\* (232, 247, 254); a rejected fetch leaves the handler as an exception
Send(i, ok) ==
    /\ proc[i].pc \in {"menu", "send"}
    /\ LET p == proc[i] IN
       proc' = [proc EXCEPT ![i] =
           IF ~ok THEN Ended(p, "failed", 0, p.sends, "telegram")
           ELSE IF p.pc = "menu" THEN [p EXCEPT !.pc = "send", !.sends = p.sends + 1]
           ELSE Ended(p, "done", IF p.req.kind = "fetch" THEN 200 ELSE 0,
                      p.sends + 1, "none")]
    /\ UNCHANGED <<now, cache, inflight, lastFetched, requests, lastReqAt, input, output>>

\* a store that drops an entry by itself once it is older than its TTL
TickExpiring(k, late) ==
    /\ \A i \in Inv : proc[i].pc \in {"idle", "done", "failed"}
    /\ \E i \in Inv : proc[i].pc = "idle" /\ proc[i].req.kind # "none"
    /\ cache[k] # Missing
    /\ LET e == JSONparse(cache[k])
           ttl == IF e.t = "price" THEN TTL_PRICE
                  ELSE IF k[1] = "RSI_weekly" THEN TTL_RSI_WEEKLY ELSE TTL_RSI_MONTHLY
       IN /\ e.ts + ttl + late > now
          /\ now' = e.ts + ttl + late
    /\ cache' = IF late = 1 THEN [cache EXCEPT ![k] = Missing] ELSE cache
    /\ UNCHANGED <<proc, inflight, lastFetched, requests, lastReqAt, input, output>>

\* no invocation is between its first and its last step
Quiet == \A i \in Inv : proc[i].pc \in {"idle", "done", "failed"}

\* time passes between bursts of activity (an invocation lasts seconds, the
\* TTLs are days), while an event is still to come: the clock jumps to the
\* instant an entry reaches its TTL (late = 0) or to the next instant after
\* it (late = 1)
Tick(k, late) ==
    /\ Quiet
    /\ \E i \in Inv : proc[i].pc = "idle" /\ proc[i].req.kind # "none"
    /\ cache[k] # Missing
    /\ LET e == JSONparse(cache[k])
           ttl == IF e.t = "price" THEN TTL_PRICE
                  ELSE IF k[1] = "RSI_weekly" THEN TTL_RSI_WEEKLY ELSE TTL_RSI_MONTHLY
       IN /\ e.ts + ttl + late > now
          /\ now' = e.ts + ttl + late
    /\ UNCHANGED <<cache, proc, inflight, lastFetched, requests, lastReqAt, input, output>>

Next ==
    \/ \E i \in Inv : Receive(i)
    \/ \E i \in Inv : CacheGet(i)
    \/ \E i \in Inv : Wake(i)
    \/ \E i \in Inv, resp \in Responses : Respond(i, resp)
    \/ \E i \in Inv : CachePut(i)
    \/ \E i \in Inv, ok \in BOOLEAN : Send(i, ok)
    \/ \E k \in Keys, late \in {0, 1} : Tick(k, late)

\* every schedule of every event
Spec == Init /\ [][Next]_vars

(* ------------------------- checked scenarios -------------------------- *)

\* The events arrive one after another, in the order of their numbers, each
\* after the one before has ended; time passes between them.
ReceiveInTurn(i) ==
    /\ Quiet
    /\ \A j \in Inv : j < i => proc[j].pc # "idle"
    /\ Receive(i)

NextSerial ==
    \/ \E i \in Inv : ReceiveInTurn(i)
    \/ \E i \in Inv : CacheGet(i)
    \/ \E i \in Inv : Wake(i)
    \/ \E i \in Inv, resp \in Responses : Respond(i, resp)
    \/ \E i \in Inv : CachePut(i)
    \/ \E i \in Inv, ok \in BOOLEAN : Send(i, ok)
    \/ \E k \in Keys, late \in {0, 1} : Tick(k, late)

\* single-asset requests, one after another
SpecSerial == Start(AssetEvents) /\ [][NextSerial]_vars

\* The events overlap in every way; the run is too short for an entry to age.
NextOverlap ==
    \/ \E i \in Inv : Receive(i)
    \/ \E i \in Inv : CacheGet(i)
    \/ \E i \in Inv : Wake(i)
    \/ \E i \in Inv, resp \in Responses : Respond(i, resp)
    \/ \E i \in Inv : CachePut(i)
    \/ \E i \in Inv, ok \in BOOLEAN : Send(i, ok)

\* the entry a lookup writes at Date.now() = t on an ordinary response
Seed(k, t) ==
    IF k[1] = "PRICE" THEN getPriceTail(Closes("zig", MinCloses + 1), Null, t)
    ELSE getRSITail(Closes("zig", MinCloses + 1), Null, t)

\* Earlier invocations have filled the store; since then one or two keys of
\* one asset have gone stale, or were never written, and the others have been
\* refreshed.
InitRace ==
    \E a \in 1..NumAssets, ms \in SUBSET {1, 2, 3}, gone \in BOOLEAN :
        LET cold == {cacheKey(Metrics[j], assetLabels[a].symbol) : j \in ms} IN
        /\ Cardinality(ms) \in {1, 2}
        /\ now = StartTime + TTL_RSI_MONTHLY + 1 + 3 * YahooDelay
        /\ cache = [k \in Keys |->
               IF k \notin cold THEN JSONstringify(Seed(k, now - YahooDelay).entry)
               ELSE IF gone THEN Missing
               ELSE JSONstringify(Seed(k, StartTime).entry)]
        /\ lastFetched = [k \in Keys |->
               IF k \notin cold THEN Seed(k, now - YahooDelay).value
               ELSE IF gone THEN Null
               ELSE Seed(k, StartTime).value]
        /\ proc \in [Inv -> {Idle(r) : r \in AssetEvents}]
        /\ inflight = {}
        /\ requests = 0
        /\ lastReqAt = 0
        /\ input = Null
        /\ output = NotCalled

\* single-asset requests that overlap, most of their lookups fresh
SpecOverlap == InitRace /\ [][NextOverlap]_vars

\* one event of any kind, alone
InitDigest ==
    /\ Start(Events \cup {NoEvent})
    /\ proc[1].req # NoEvent
    /\ \A i \in Inv : i > 1 => proc[i].req = NoEvent

SpecDigest == InitDigest /\ [][NextOverlap]_vars

(* ------------------- the RSI functions on their own ------------------- *)

Patterns == [1..PatLen -> (0 - MaxStep)..MaxStep]

\* the i-th close (from 1) of the array that starts at Base and moves by the
\* steps of the pattern, repeated
RECURSIVE Walk(_, _)
Walk(pattern, i) ==
    IF i = 1 THEN Base
    ELSE Walk(pattern, i - 1) + pattern[((i - 2) % PatLen) + 1]

\* a close array of n bars; nulls says which bars are missing
TestSeries(pattern, n, nulls) ==
    [i \in 1..n |->
        IF nulls = "all" \/ (nulls = "last" /\ i = n) THEN Null
        ELSE Whole(Walk(pattern, i))]

Array(items) == [t |-> "array", items |-> items]

Inputs ==
    {Null, Undefined} \cup
    {Array(TestSeries(pattern, n, nulls)) :
        pattern \in Patterns, n \in 0..MaxLen, nulls \in {"none", "last", "all"}}

InitRSI ==
    /\ now = StartTime
    /\ cache = [k \in Keys |-> Missing]
    /\ proc = [i \in Inv |-> Idle(NoEvent)]
    /\ inflight = {}
    /\ lastFetched = [k \in Keys |-> Null]
    /\ requests = 0
    /\ lastReqAt = 0
    /\ input \in Inputs
    /\ output = NotCalled

\* calculateRSI(input) with the default period
CallCalculateRSI ==
    /\ output = NotCalled
    /\ output' = [of |-> "calculateRSI", value |-> calculateRSICall(input, Period)]
    /\ UNCHANGED <<now, cache, proc, inflight, lastFetched, requests, lastReqAt, input>>

\* getRSI from the response on, for a response whose close array is input
\* (104-131), on an empty cache
CallGetRSI ==
    /\ output = NotCalled
    /\ LET resp == IF input.t = "array" THEN [kind |-> "closes", closes |-> input.items]
                   ELSE Failure("nocloses")
       IN output' = [of |-> "getRSI", value |-> getRSITail(resp, Null, now)]
    /\ UNCHANGED <<now, cache, proc, inflight, lastFetched, requests, lastReqAt, input>>

NextRSI ==
    \/ CallCalculateRSI
    \/ CallGetRSI

\* one direct call on any input
SpecRSI == InitRSI /\ [][NextRSI]_vars

(* ------------------------------ properties ---------------------------- *)

\* the provider fetch failed: network error, unparsable body, no close array
\* (an error or quota body), or a close array too short for the metric
ProviderFailed(metric, resp) ==
    \/ resp.kind \in {"reject", "badjson", "nocloses"}
    \/ metric # "price" /\ Len(resp.closes) < Period + 1
    \/ metric = "price" /\ \A j \in 1..Len(resp.closes) : resp.closes[j].t # "num"

\* the value of the entry a lookup read, as the lookup returns it
Served(metric, cached) ==
    IF cached = Null THEN Null
    ELSE IF metric = "price" THEN cached.value ELSE cached

\* the metric of the lookup invocation i began last
LastMetric(i) == proc[i].order[Len(proc[i].order)][2]
LastKey(i) ==
    cacheKey(LastMetric(i), assetLabels[proc[i].order[Len(proc[i].order)][1]].symbol)

\* C1: when the provider fetch of a lookup fails, the lookup does not raise;
\* it returns the entry it read from the cache, stale or not, and null if it
\* read none.
C1_FailureFallsBack ==
    [][\A i \in Inv, resp \in Responses :
          (Respond(i, resp) /\ ProviderFailed(proc[i].metric, resp))
          => /\ proc'[i].pc # "failed"
             /\ proc'[i].how = "fallback"
             /\ proc'[i].ret = Served(proc[i].metric, proc[i].cached)]_vars

\* a failed refresh has just returned a stale entry
C1_Witness ==
    \E i \in Inv :
        /\ proc[i].pc \in {"get", "send"}
        /\ proc[i].how = "fallback"
        /\ proc[i].ret # Null
        /\ proc[i].cached # Null
        /\ isExpired(proc[i].cached.ts, TTL(LastMetric(i)), now)

\* C2: a lookup that finds an entry of age <= ttl (age = ttl included)
\* returns its value at once: no request is sent, the store is not written.
C2_FreshHit ==
    [][\A i \in Inv :
          (/\ proc[i].pc = "get"
           /\ proc'[i] # proc[i]
           /\ cache[KeyOf(proc[i])] # Missing
           /\ now - JSONparse(cache[KeyOf(proc[i])]).ts <= TTL(proc[i].metric))
          => /\ proc'[i].how = "hit"
             /\ proc'[i].pc \in {"get", "send"}
             /\ proc'[i].ret =
                    Served(proc[i].metric, JSONparse(cache[KeyOf(proc[i])]))
             /\ cache' = cache
             /\ inflight' = inflight
             /\ requests' = requests]_vars

\* a lookup has just been served an entry whose age is exactly the TTL
C2_Witness ==
    \E i \in Inv :
        /\ proc[i].pc \in {"get", "send"}
        /\ proc[i].how = "hit"
        /\ proc[i].cached # Null
        /\ now - proc[i].cached.ts = TTL(LastMetric(i))

\* invocation i ends a lookup in this step by a cache hit
HitStep(i) ==
    /\ proc[i].pc = "get"
    /\ proc'[i] # proc[i]
    /\ proc'[i].pc \in {"get", "send"}

\* C3: a lookup that finds no fresh entry and whose fetch succeeds stores
\* the fetched value under its key with the current time and returns that
\* value; a later lookup of the key within the TTL returns exactly that value.
C3_StoreThenServe ==
    [][\A i \in Inv :
          /\ \A resp \in Responses :
                (Respond(i, resp) /\ ~ProviderFailed(proc[i].metric, resp))
                => /\ proc'[i].pc = "put"
                   /\ proc'[i].pending.entry.ts = now
          /\ (proc[i].pc = "put" /\ proc'[i].pc # "put")
             => /\ cache'[KeyOf(proc[i])] # Missing
                /\ JSONparse(cache'[KeyOf(proc[i])]).ts = proc[i].pending.entry.ts
                /\ proc'[i].ret = proc[i].pending.value
          /\ HitStep(i) => proc'[i].ret = lastFetched[KeyOf(proc[i])]]_vars

\* C4: of two lookups of a key within the TTL, the first with a provider that
\* succeeds, the second returns the first one's value unchanged and sends no
\* request: the provider is called once over the two.
C4_SecondCallUnchanged ==
    [][\A i \in Inv :
          HitStep(i)
          => /\ proc'[i].ret = lastFetched[KeyOf(proc[i])]
             /\ requests' = requests
             /\ inflight' = inflight]_vars

\* C5: a refresh that fails leaves the store as it was, for every key: the
\* stale entry keeps value and timestamp, no entry appears for a missing key.
C5_FailedRefreshKeepsStore ==
    [][\A i \in Inv, resp \in Responses :
          (Respond(i, resp) /\ ProviderFailed(proc[i].metric, resp))
          => /\ cache' = cache
             /\ proc'[i].pc # "put"]_vars

\* after a failed refresh the entry is still the stale one that was read
C5_Witness ==
    \E i \in Inv :
        /\ proc[i].pc \in {"get", "send"}
        /\ proc[i].how = "fallback"
        /\ proc[i].cached # Null
        /\ cache[LastKey(i)] # Missing
        /\ JSONparse(cache[LastKey(i)]) = proc[i].cached
        /\ isExpired(proc[i].cached.ts, TTL(LastMetric(i)), now)

\* C6: over all invocations together at most one provider request is
\* outstanding, and consecutive requests are at least the delay apart.
C6_GloballyThrottled ==
    [][/\ Cardinality(inflight') <= 1
       /\ (requests' > requests /\ lastReqAt > 0) => now' - lastReqAt >= YahooDelay]_vars

\* C6, amended: each invocation has at most one provider request outstanding
\* and its consecutive requests are at least the delay apart.
C6_ThrottledPerInvocation ==
    [][\A i \in Inv :
          /\ Cardinality({r \in inflight' : r[1] = i}) <= 1
          /\ (proc[i].pc = "sleep" /\ proc'[i].pc = "request" /\ proc[i].sentAt > 0)
             => now' - proc[i].sentAt >= YahooDelay]_vars

\* an invocation sends its second request while the other one's is outstanding
C6_Witness ==
    \E i, j \in Inv :
        /\ i # j
        /\ proc[i].pc = "request"
        /\ proc[j].pc = "request"
        /\ Len(proc[i].order) > 1
        /\ LastMetric(i) # proc[i].order[1][2]
        /\ proc[i].how # "hit"
        /\ proc[i].how # "none"

\* invocation i builds the digest of all assets
IsDigest(i) == Route(proc[i].req).mode = "all"

\* C7: provider failures do not abort a digest: no exception leaves a lookup,
\* the loop has added one section per asset visited so far, and the message
\* handed to Telegram holds exactly one section per asset, in order.
C7_DigestSurvivesFailures ==
    \A i \in Inv :
        IsDigest(i)
        => /\ proc[i].err # "lookup"
           /\ proc[i].pc \in {"get", "sleep", "request", "put"}
              => Len(proc[i].msg) = proc[i].idx - 1
           /\ proc[i].pc = "send"
              => /\ Len(proc[i].msg) = NumAssets
                 /\ \A k \in 1..NumAssets : proc[i].msg[k].name = assetLabels[k].name

\* a finished digest in which one asset's price failed and another's did not
C7_Witness ==
    \E i \in Inv :
        /\ IsDigest(i)
        /\ proc[i].pc = "send"
        /\ \E k \in 1..Len(proc[i].msg) : proc[i].msg[k].price.text = "N/A"
        /\ \E k \in 1..Len(proc[i].msg) : proc[i].msg[k].price.text = "digits"

\* the entry a lookup holds after ASSET_CACHE.get: null for a missing key
Read(k) == IF cache[k] = Missing THEN Null ELSE JSONparse(cache[k])

\* C8: with overlapping invocations the store changes only by one
\* invocation's put, which replaces the whole entry of its key by the pair
\* that invocation built (the last put wins), and every lookup returns
\* either what it fetched itself or what the store held when it read.
C8_LastWriterWins ==
    [][/\ \A k \in Keys :
             cache'[k] # cache[k]
             => \E i \in Inv : /\ proc[i].pc = "put"
                               /\ KeyOf(proc[i]) = k
                               /\ cache'[k] = JSONstringify(proc[i].pending.entry)
       /\ \A i \in Inv :
             /\ (proc[i].pc = "put" /\ proc'[i].pc # "put")
                => /\ cache'[KeyOf(proc[i])] = JSONstringify(proc[i].pending.entry)
                   /\ proc'[i].ret = proc[i].pending.value
             /\ (proc[i].pc = "get" /\ proc'[i].pc = "sleep")
                => proc'[i].cached = Read(KeyOf(proc[i]))
             /\ HitStep(i)
                => proc'[i].ret = Served(proc[i].metric, Read(KeyOf(proc[i])))
             /\ (proc[i].pc = "request" /\ proc'[i].pc \in {"get", "send"})
                => proc'[i].ret = Served(proc[i].metric, proc[i].cached)]_vars

\* both invocations have refreshed the same RSI key with different readings,
\* and the store holds the one put last
C8_Witness ==
    \E i, j \in Inv :
        /\ i # j
        /\ proc[i].how = "fetched"
        /\ proc[j].how = "fetched"
        /\ LastMetric(i) # "price"
        /\ LastKey(i) = LastKey(j)
        /\ cache[LastKey(i)] = JSONstringify(proc[j].ret)
        /\ cache[LastKey(i)] # JSONstringify(proc[i].ret)

\* C9: a digest looks up weekly RSI, monthly RSI and price of one asset after
\* the other, in the order of assetLabels; the lookups of an asset are over
\* before one of the next asset begins, and the invocation never has two
\* provider requests outstanding.
C9_OneLookupAtATime ==
    \A i \in Inv :
        IsDigest(i)
        => /\ \A j \in 1..Len(proc[i].order) :
                 /\ proc[i].order[j] = <<((j - 1) \div 3) + 1, Metrics[((j - 1) % 3) + 1]>>
                 /\ proc[i].order[j][1] <= Len(proc[i].msg) + 1
           /\ Cardinality({r \in inflight : r[1] = i}) <= 1

\* the digest waits for Yahoo on the second asset, the first one's lookups done
C9_Witness ==
    \E i \in Inv :
        /\ IsDigest(i)
        /\ proc[i].pc = "request"
        /\ proc[i].idx = 2
        /\ Len(proc[i].msg) = 1
        /\ requests >= 4

\* C10: a metric that could not be obtained, or an RSI that is no valid
\* number, is rendered as "N/A" with the neutral arrow; no section ever shows
\* a token that is neither digits nor "N/A".
C10_RendersNAOnly ==
    \A i \in Inv : \A k \in 1..Len(proc[i].msg) :
        LET sec == proc[i].msg[k] IN
        /\ sec.price.text \in {"digits", "N/A"}
        /\ sec.weekly.text \in {"digits", "N/A"}
        /\ sec.monthly.text \in {"digits", "N/A"}
        /\ sec.weekly.text = "N/A" => sec.weeklyArrow = "flat"
        /\ sec.monthly.text = "N/A" => sec.monthlyArrow = "flat"

\* C11: no step removes a cache entry: a key that holds an entry holds one in
\* every later state, through fresh hits, successful and failed refreshes.
C11_NoEntryRemoved ==
    [][\A k \in Keys : cache[k] # Missing => cache'[k] # Missing]_vars

\* a successful refresh has just replaced an entry that had gone stale, after
\* the clock passed its TTL
C11_Witness ==
    \E i \in Inv :
        /\ proc[i].pc \in {"get", "send"}
        /\ proc[i].how = "fetched"
        /\ proc[i].cached # Null
        /\ now - proc[i].cached.ts > TTL(LastMetric(i))
        /\ cache[LastKey(i)] # Missing
        /\ JSONparse(cache[LastKey(i)]).ts > proc[i].cached.ts

\* the argument is an array of at least period + 1 closes
LongEnough == input.t = "array" /\ Len(input.items) >= Period + 1

\* all bars present and no close lower than the one before
NoLoss(items) ==
    /\ \A j \in 1..Len(items) : items[j].t = "num"
    /\ \A j \in 1..(Len(items) - 1) : items[j + 1].n >= items[j].n

\* all bars present and every close lower than the one before
StrictlyDecreasing(items) ==
    /\ \A j \in 1..Len(items) : items[j].t = "num"
    /\ \A j \in 1..(Len(items) - 1) : items[j + 1].n < items[j].n

\* C12: for every series of at least period + 1 closes with no close lower
\* than its predecessor (avgLoss = 0), calculateRSI returns 100.
C12_NoLossGives100 ==
    (output.of = "calculateRSI" /\ LongEnough /\ NoLoss(input.items))
    => output.value = Whole(100)

\* C13: calculateRSI returns null for an absent argument and for an array of
\* fewer than period + 1 elements (14 included), and a non-null result for
\* every array of period + 1 or more.
C13_NullIffTooShort ==
    output.of = "calculateRSI"
    => (output.value = Null <=> ~LongEnough)

\* calculateRSI has returned null for an array of exactly period closes
C13_Witness ==
    /\ output.of = "calculateRSI"
    /\ input.t = "array"
    /\ Len(input.items) = Period
    /\ NoLoss(input.items)
    /\ output.value = Null

\* C14: for every strictly decreasing series of at least period + 1 closes,
\* calculateRSI returns exactly 0.
C14_DecreasingGives0 ==
    (output.of = "calculateRSI" /\ LongEnough /\ StrictlyDecreasing(input.items))
    => output.value = Whole(0)

\* calculateRSI has returned 0 for a series, longer than period + 1, that
\* falls by unequal steps
C14_Witness ==
    /\ output.of = "calculateRSI"
    /\ input.t = "array"
    /\ Len(input.items) > Period + 1
    /\ StrictlyDecreasing(input.items)
    /\ input.items[1].n - input.items[2].n # input.items[2].n - input.items[3].n
    /\ output.value = Whole(0)

\* C15: for an accepted close array (n >= 15), current is calculateRSI of the
\* last 15 closes, previous is calculateRSI of the 15 closes ending at the
\* last but one, and both readings are numbers.
C15_BothReadingsNumbers ==
    (output.of = "getRSI" /\ LongEnough)
    => LET n == Len(input.items)
           e == output.value.entry
       IN /\ output.value.do = "put"
          /\ e.current = calculateRSI(SubSeq(input.items, n - Period, n), Period)
          /\ e.current.t = "num"
          /\ e.previous.t = "num"
          /\ n > Period + 1 =>
                e.previous = calculateRSI(SubSeq(input.items, n - Period - 1, n - 1), Period)

\* C16: every stored entry holds numbers: a PRICE entry's value, an RSI
\* entry's current and previous.
C16_StoredEntriesNumeric ==
    \A k \in Keys :
        cache[k] # Missing
        => LET e == JSONparse(cache[k]) IN
           IF e.t = "price" THEN e.value.t = "num"
           ELSE e.current.t = "num" /\ e.previous.t = "num"

\* C17: the timestamp stored under a key never decreases, overlapping
\* refreshes of the key included.
C17_TimestampNeverDecreases ==
    [][\A k \in Keys :
          (cache[k] # Missing /\ cache'[k] # Missing)
          => JSONparse(cache'[k]).ts >= JSONparse(cache[k]).ts]_vars

\* a POST that carries a chat id, and the chat is not on the allow-list
Unauthorized(r) ==
    r.kind = "fetch" /\ r.method = "POST" /\ r.chatId # 0 /\ r.chatId \notin AllowedChatIds

\* the handler of invocation i, alone in the run, has had no effect
NoSideEffects(i) ==
    /\ proc[i].pc \in {"idle", "done"}
    /\ proc[i].order = <<>>
    /\ proc[i].sends = 0
    /\ requests = 0
    /\ inflight = {}
    /\ \A k \in Keys : cache[k] = Missing

\* a fetch handler that reads the cache, asks Yahoo, writes or sends is past
\* the allow-list test
EffectsOnlyWhenAllowed ==
    \A i \in Inv :
        (/\ proc[i].req.kind = "fetch"
         /\ \/ proc[i].pc \in {"get", "sleep", "request", "put", "menu", "send"}
            \/ proc[i].order # <<>>
            \/ proc[i].sends > 0)
        => proc[i].req.method = "POST" /\ proc[i].req.chatId \in AllowedChatIds

\* C18: a POST whose chat id is not on the allow-list is answered 403 and has
\* no effect (no cache read or write, no Yahoo request, no Telegram send);
\* effects happen only past the allow-list test.
C18_UnauthorizedGets403 ==
    /\ \A i \in Inv :
          Unauthorized(proc[i].req)
          => NoSideEffects(i) /\ (proc[i].pc = "done" => proc[i].status = 403)
    /\ EffectsOnlyWhenAllowed

\* C18, amended: such a POST has no effect, and it is answered 403 when it
\* carries a text and is not for /favicon.ico or /robots.txt (404 for these
\* paths, 200 without a text); effects happen only past the allow-list test.
C18_UnauthorizedNoEffect ==
    /\ \A i \in Inv :
          Unauthorized(proc[i].req)
          => /\ NoSideEffects(i)
             /\ proc[i].pc = "done"
                => proc[i].status =
                     IF proc[i].req.path \in {"/favicon.ico", "/robots.txt"} THEN 404
                     ELSE IF proc[i].req.text = "" THEN 200
                     ELSE 403
    /\ EffectsOnlyWhenAllowed

\* a request for the digest from a chat off the allow-list has been answered 403
C18_Witness ==
    \E i \in Inv :
        /\ Unauthorized(proc[i].req)
        /\ proc[i].req.text = "Tous les actifs"
        /\ proc[i].pc = "done"
        /\ proc[i].status = 403
====
